---------------------------- MODULE Spec2Model ----------------------------
(***************************************************************************)
(* A model of inputshaping.py: the InputShaper object, its shaper-family   *)
(* methods, the strength relaxation (_relax_vibration), the damping scaling *)
(* (_scale_for_damping), digitize_shaper and residual_vibration.           *)
(*                                                                         *)
(* Numbers.  The program computes with floats; the model computes with     *)
(* integers in these units:                                                *)
(*   - a real quantity (amplitude, fraction, damping ratio, vibration) is  *)
(*     the integer Unit times its value, Unit = 10^6 (six decimals);       *)
(*   - an angle is an integer number of angle units, Pi of them to pi rad; *)
(*   - a time is an integer number of ticks, Second of them to one second; *)
(*   - a frequency (wn, wd) is in angle units per tick, so wn = 5 is       *)
(*     5*pi rad/s, and wn*t is an angle in angle units;                    *)
(*   - fps is in frames per second, so dt = Second/fps ticks.              *)
(* np.sin, np.cos, np.arccos, np.sqrt and np.e**x are computed to six      *)
(* decimals on these grids.  NaN and the two infinities of IEEE arithmetic *)
(* are three reserved integers.                                            *)
(***************************************************************************)
EXTENDS Integers, Sequences, FiniteSets, TLC

Unit == 10^6

MaxInt == 2147483647

NaN == -MaxInt

PosInf == MaxInt - 1

NegInf == -(MaxInt - 1)

IsFinite(x) == x # NaN /\ x # PosInf /\ x # NegInf

Abs(x) == IF x < 0 THEN -x ELSE x

Sgn(x) == IF x < 0 THEN -1 ELSE IF x > 0 THEN 1 ELSE 0

Max(a, b) == IF a >= b THEN a ELSE b

Min(a, b) == IF a <= b THEN a ELSE b

\* F(v) with v computed once, however often F reads it: a local variable
With(v, F(_)) == CHOOSE y \in {F(x) : x \in {v}} : TRUE

\* floor(a*b/Unit) for 0 <= a, b < 2^30, the product a*b never formed
MulUnit(a, b) ==
    ((a \div 1000) * (b \div 1000))
    + ((((a \div 1000) * (b % 1000)) + ((a % 1000) * (b \div 1000))
        + (((a % 1000) * (b % 1000)) \div 1000)) \div 1000)

\* the float product x*y of two reals
Mul(x, y) == With(<<x, y>>, LAMBDA v : Sgn(v[1]) * Sgn(v[2]) * MulUnit(Abs(v[1]), Abs(v[2])))

\* one decimal digit of the long division by c: from (q, r), r < c, to
\* (10*q + floor(10*r/c), (10*r) mod c), the product 10*r never formed
DivDigit(qr, c) ==
    With(qr, LAMBDA v :
    With(v[2] \div ((c \div 10) + 1), LAMBDA d :
    With(10 * (v[2] - d * (c \div 10)) - d * (c % 10), LAMBDA rem :
        <<10 * v[1] + d + (rem \div c), rem % c>>)))

\* floor(a*Unit/c) for a >= 0, c > 0: six decimal digits after the integer part
DivUnit(a, c) ==
    DivDigit(DivDigit(DivDigit(DivDigit(DivDigit(DivDigit(<<a \div c, a % c>>, c), c), c), c), c), c)[1]

\* the float quotient x/y of two reals, y # 0
Div(x, y) == With(<<x, y>>, LAMBDA v : Sgn(v[1]) * Sgn(v[2]) * DivUnit(Abs(v[1]), Abs(v[2])))

\* Python's floor division and modulo of integers (the sign follows the divisor)
FloorDiv(a, b) == IF b > 0 THEN a \div b ELSE (-a) \div (-b)

PyMod(a, b) == a - b * FloorDiv(a, b)

CeilDiv(a, b) == -FloorDiv(-a, b)

\* np.round(a/b, 0): to the nearest integer, a tie to the even one
RoundDiv(a, b) ==
    With(<<a, b>>, LAMBDA v :
    With(FloorDiv(v[1], v[2]), LAMBDA f :
    With(2 * Abs(v[1] - v[2] * f), LAMBDA twice :
        IF twice < Abs(v[2]) THEN f
        ELSE IF twice > Abs(v[2]) THEN f + 1
        ELSE IF f % 2 = 0 THEN f ELSE f + 1)))

RECURSIVE SumSeq(_)
SumSeq(s) == With(s, LAMBDA v : IF v = <<>> THEN 0 ELSE v[1] + SumSeq(Tail(v)))

(***************************************************************************)
(* np.pi is Pi angle units; one second is Second ticks.                    *)
(***************************************************************************)
Pi == 120

Second == 120

SinTable ==
    <<
       0, 26177, 52336, 78459, 104528, 130526, 156434, 182236, 207912, 233445,
       258819, 284015, 309017, 333807, 358368, 382683, 406737, 430511, 453990, 477159,
       500000, 522499, 544639, 566406, 587785, 608761, 629320, 649448, 669131, 688355,
       707107, 725374, 743145, 760406, 777146, 793353, 809017, 824126, 838671, 852640,
       866025, 878817, 891007, 902585, 913545, 923880, 933580, 942641, 951057, 958820,
       965926, 972370, 978148, 983255, 987688, 991445, 994522, 996917, 998630, 999657,
       1000000
    >>

\* np.sin of an angle in angle units
Sin(a) ==
    With(a % (2 * Pi), LAMBDA r :
    With(IF 2 * (r % Pi) <= Pi THEN r % Pi ELSE Pi - (r % Pi), LAMBDA q :
        IF r < Pi THEN SinTable[q + 1] ELSE -SinTable[q + 1]))

\* np.cos of an angle in angle units
Cos(a) == Sin(a + (Pi \div 2))

\* np.arccos of a real in [-1, 1], in angle units: the angle of [0, pi] whose
\* cosine is nearest (the cosine falls from 0 to pi)
ArcCos(x) ==
    With(x, LAMBDA v :
        CHOOSE a \in 0..Pi :
            /\ a = Pi \/ 2 * v >= Cos(a) + Cos(a + 1)
            /\ a = 0 \/ 2 * v < Cos(a - 1) + Cos(a))

\* one turn of Newton's iteration for the square root of x
SqrtTurn(x, y) == With(y, LAMBDA v : (v + Div(x, v)) \div 2)

\* np.sqrt of a real x >= 0: the largest y with y*y <= x, looked for around five
\* turns of Newton's iteration (enough from 1/4 up) and over all reals below 1/4
Sqrt(x) ==
    With(x, LAMBDA v :
        IF v = 0 THEN 0
        ELSE IF 4 * v < Unit
             THEN CHOOSE y \in 0..(Unit \div 2) : Mul(y, y) <= v /\ Mul(y + 1, y + 1) > v
        ELSE With(SqrtTurn(v, SqrtTurn(v, SqrtTurn(v, SqrtTurn(v, SqrtTurn(v, (v + Unit) \div 2))))),
                  LAMBDA near :
                      CHOOSE y \in (near - 2)..(near + 2) : Mul(y, y) <= v /\ Mul(y + 1, y + 1) > v))

(***************************************************************************)
(* np.e**x for an exponent of n angle units (x = n*pi/Pi): the product of  *)
(* the factors e**(+-2^j*pi/Pi) of the binary digits of |n|.               *)
(***************************************************************************)
ExpDecay == <<974160, 948987, 900577, 811039, 657784, 432679, 187212, 35048, 1228>>

ExpGrowth == <<1026526, 1053755, 1110399, 1232987, 1520256, 2311180, 5341551, 28532168, 814084629>>

\* the factor of the binary digit j of n
ExpFactor(n, j, table) == IF (n \div (2^(j - 1))) % 2 = 1 THEN table[j] ELSE Unit

ExpBits(n, table) ==
    Mul(ExpFactor(n, 1, table), Mul(ExpFactor(n, 2, table), Mul(ExpFactor(n, 3, table),
    Mul(ExpFactor(n, 4, table), Mul(ExpFactor(n, 5, table), Mul(ExpFactor(n, 6, table),
    Mul(ExpFactor(n, 7, table), Mul(ExpFactor(n, 8, table), ExpFactor(n, 9, table)))))))))

Exp(n) == With(n, LAMBDA v : IF v >= 0 THEN ExpBits(v, ExpGrowth) ELSE ExpBits(-v, ExpDecay))

(***************************************************************************)
(* IEEE arithmetic on values that may be NaN or infinite (numpy's floats   *)
(* divide by zero without raising).                                        *)
(***************************************************************************)
\* the largest magnitude the model's reals reach; a product or quotient beyond
\* it is an infinity
Huge == 10^9

FDivOf(x, y) ==
    IF x = NaN \/ y = NaN THEN NaN
    ELSE IF ~IsFinite(x) THEN (IF ~IsFinite(y) THEN NaN
                               ELSE IF (x = PosInf) = (y >= 0) THEN PosInf ELSE NegInf)
    ELSE IF ~IsFinite(y) THEN 0
    ELSE IF y = 0 THEN (IF x = 0 THEN NaN ELSE IF x > 0 THEN PosInf ELSE NegInf)
    ELSE IF Abs(y) < Unit /\ Abs(x) > Mul(Huge, Abs(y))
         THEN (IF (x > 0) = (y > 0) THEN PosInf ELSE NegInf)
    ELSE Div(x, y)

\* the float quotient x/y of numpy floats
FDiv(x, y) == With(<<x, y>>, LAMBDA v : FDivOf(v[1], v[2]))

FMulOf(x, y) ==
    IF x = NaN \/ y = NaN THEN NaN
    ELSE IF ~IsFinite(x) \/ ~IsFinite(y)
         THEN (IF x = 0 \/ y = 0 THEN NaN
               ELSE IF (x > 0) = (y > 0) THEN PosInf ELSE NegInf)
    ELSE IF Abs(x) > Unit /\ Abs(y) > Unit /\ Abs(y) > Div(Huge, Abs(x))
         THEN (IF (x > 0) = (y > 0) THEN PosInf ELSE NegInf)
    ELSE Mul(x, y)

\* the float product x*y of numpy floats
FMul(x, y) == With(<<x, y>>, LAMBDA v : FMulOf(v[1], v[2]))

FAddOf(x, y) ==
    IF x = NaN \/ y = NaN THEN NaN
    ELSE IF ~IsFinite(x) THEN (IF ~IsFinite(y) /\ x # y THEN NaN ELSE x)
    ELSE IF ~IsFinite(y) THEN y
    ELSE IF Abs(x + y) > Huge THEN (IF x + y > 0 THEN PosInf ELSE NegInf)
    ELSE x + y

\* the float sum x+y of numpy floats
FAdd(x, y) == With(<<x, y>>, LAMBDA v : FAddOf(v[1], v[2]))

RECURSIVE FSum(_)
FSum(s) == With(s, LAMBDA v : IF v = <<>> THEN 0 ELSE FAdd(v[1], FSum(Tail(v))))

\* the exponent zeta*wn*t of np.e**(zeta*wn*t), in angle units
ExpArg(zeta, wn, t) == RoundDiv(zeta * wn * t, Unit)

\* wn*np.sqrt(1.0 - zeta**2.0), in angle units per tick
DampedFrequency(wn, zeta) == RoundDiv(wn * Sqrt(Unit - Mul(zeta, zeta)), Unit)

\* np.sqrt(c**2 + s**2), the squares never formed at full size
Hypot(c, s) ==
    With(<<Abs(c), Abs(s)>>, LAMBDA w :
    With(<<Max(w[1], w[2]), Min(w[1], w[2])>>, LAMBDA v :
        IF v[2] = 0 THEN v[1]
        ELSE With(Div(v[2], v[1]), LAMBDA ratio : Mul(v[1], Sqrt(Unit + Mul(ratio, ratio))))))

(***************************************************************************)
(* residual_vibration(amps, times, wn, zeta, valueAdded=0).  The factor     *)
(* np.e**(-zeta*wn*times[nAmps-1]) of the result is taken into each term   *)
(* of C and S, whose np.e**(zeta*wn*times[k]) alone has no place in the    *)
(* model's range of reals.                                                 *)
(***************************************************************************)
residual_vibration(amps, times, wn, zeta, valueAdded) ==
    With([amps EXCEPT ![1] = @ + valueAdded], LAMBDA added :
    With(SumSeq(added), LAMBDA total :
    With([k \in 1..Len(added) |-> Div(added[k], total)], LAMBDA norm :
    With(DampedFrequency(wn, zeta), LAMBDA wd :
    With(ExpArg(zeta, wn, times[Len(norm)]), LAMBDA last :
    With([k \in 1..Len(norm) |-> Mul(norm[k], Exp(ExpArg(zeta, wn, times[k]) - last))], LAMBDA grown :
    With([k \in 1..Len(norm) |-> Mul(grown[k], Cos(wd * times[k]))], LAMBDA C :
    With([k \in 1..Len(norm) |-> Mul(grown[k], Sin(wd * times[k]))], LAMBDA S :
        Hypot(SumSeq(C), SumSeq(S))))))))))

\* scaled_cubic(a0, a1, a2, a3, xIn, kIn), kIn a time in ticks
scaled_cubic(a0, a1, a2, a3, xIn, kIn) ==
    RoundDiv(kIn * (a0 + Mul(a1, xIn) + Mul(a2, Mul(xIn, xIn)) + Mul(a3, Mul(xIn, Mul(xIn, xIn)))), Unit)

(***************************************************************************)
(* digitize_shaper(amps, times, wn, zeta, dt).  The result is the returned *)
(* tuple, or the exception raised.                                         *)
(***************************************************************************)
\* the two impulses an off-grid impulse (amp, time) is split into
SplitImpulse(amp, time, wn, zeta, wd, dt) ==
    With(<<FloorDiv(time, dt) * dt, CeilDiv(time, dt) * dt>>, LAMBDA tk :
    With(<<Abs(tk[1] - time) * wd, Abs(tk[2] - time) * wd>>, LAMBDA phik :
    With(Mul(Sin(phik[2]), Cos(phik[1])) + Mul(Sin(phik[1]), Cos(phik[2])), LAMBDA den :
        [B |-> <<FMul(Mul(amp, Exp(ExpArg(-zeta, wn, tk[1] - time))), FDiv(Sin(phik[2]), den)),
                 FMul(Mul(amp, Exp(ExpArg(-zeta, wn, tk[2] - time))), FDiv(Sin(phik[1]), den))>>,
         t |-> tk])))

\* the turn of the for loop with the test times[i]%dt == 0 taken as true
DigitizeImpulseKept(amp, time, wn, zeta, wd, dt) == [B |-> <<amp>>, t |-> <<time>>]

\* the turn of the for loop with the test times[i]%dt == 0 taken as false
DigitizeImpulseSplit(amp, time, wn, zeta, wd, dt) == SplitImpulse(amp, time, wn, zeta, wd, dt)

\* what one turn of the for loop appends to B and to t
DigitizeImpulse(amp, time, wn, zeta, wd, dt) ==
    IF PyMod(time, dt) = 0 THEN [B |-> <<amp>>, t |-> <<time>>]
    ELSE SplitImpulse(amp, time, wn, zeta, wd, dt)

\* B and t after the turns for the impulses i..nAmps
RECURSIVE DigitizeFrom(_, _)
DigitizeFrom(i, turns) ==
    IF i > Len(turns) THEN [B |-> <<>>, t |-> <<>>]
    ELSE With(DigitizeFrom(i + 1, turns), LAMBDA rest :
             [B |-> turns[i].B \o rest.B, t |-> turns[i].t \o rest.t])

\* the frames with np.floor in the place of np.round
DigitalFramesFloored(t, dt) == [k \in 1..Len(t) |-> FloorDiv(t[k], dt)]

\* digFrames = [int(np.round(k/dt, 0)) for k in t]
DigitalFrames(t, dt) == [k \in 1..Len(t) |-> RoundDiv(t[k], dt)]

digitize_shaper(amps, times, wn, zeta, dt) ==
    IF Len(amps) = 0 \/ Len(times) = 0
    THEN [raised |-> "IndexError", digNum |-> 0, digAmps |-> <<>>, digTimes |-> <<>>, digFrames |-> <<>>]
    ELSE With(DampedFrequency(wn, zeta), LAMBDA wd :
         With([i \in 1..Len(amps) |->
                  IF i = 1 THEN [B |-> <<amps[1]>>, t |-> <<times[1]>>]
                  ELSE DigitizeImpulse(amps[i], times[i], wn, zeta, wd, dt)], LAMBDA turns :
         With(DigitizeFrom(1, turns), LAMBDA built :
         With(FSum(built.B), LAMBDA total :
             IF total = 0 /\ Len(built.B) = Len(amps)
             THEN [raised |-> "ZeroDivisionError", digNum |-> 0, digAmps |-> <<>>,
                   digTimes |-> <<>>, digFrames |-> <<>>]
             ELSE [raised    |-> "none",
                   digNum    |-> Len(built.B),
                   digAmps   |-> [k \in 1..Len(built.B) |-> FDiv(built.B[k], total)],
                   digTimes  |-> built.t,
                   digFrames |-> DigitalFrames(built.t, dt)]))))

(***************************************************************************)
(* The InputShaper object is a record of its attributes.  A method is an   *)
(* operator from the object (self) to its outcome: the object as the       *)
(* method left it, the exception it raised ("none" when it returned), and  *)
(* pc "search" and the search's locals when it is inside the while loop of *)
(* _relax_vibration).  W adds or replaces the attributes a method assigns. *)
(***************************************************************************)
W(self, assigned) == assigned @@ self

\* the locals of the bisection search of _relax_vibration, outside the search
NoFrame ==
    [partialFrac |-> 0, iterationNum |-> 0, lowerBoundAdded |-> 0, upperBoundAdded |-> 0,
     highValueVibration |-> 0, midValueAdded |-> 0, midValueVibration |-> 0]

Return(self) == [self |-> self, raised |-> "none", pc |-> "idle", frame |-> NoFrame]

Raise(self, exception) == [self |-> self, raised |-> exception, pc |-> "idle", frame |-> NoFrame]

\* the method is inside the while loop of _relax_vibration
Search(self, frame) == [self |-> self, raised |-> "none", pc |-> "search", frame |-> frame]

OFF(self) ==
    W(self, [shaperType   |-> "OFF",
             strengthFrac |-> NaN,
             conNum       |-> 1,
             conAmps      |-> <<Unit>>,
             conTimes     |-> <<0>>,
             digNum       |-> 1,
             digAmps      |-> <<Unit>>,
             digTimes     |-> <<0>>,
             digFrames    |-> <<0>>])

\* the digitization with the digital sequence an earlier call stored left in
\* place when the new one has as many impulses
DigitizeKeptSameNum(self) ==
    With(self, LAMBDA obj :
    With(digitize_shaper(obj.conAmps, obj.conTimes, obj.wn, obj.zeta, obj.dt), LAMBDA d :
        IF d.raised # "none" THEN Raise(obj, d.raised)
        ELSE IF d.digNum = obj.digNum THEN Return(obj)
        ELSE Return(W(obj, [digNum    |-> d.digNum,
                            digAmps   |-> d.digAmps,
                            digTimes  |-> d.digTimes,
                            digFrames |-> d.digFrames]))))

\* (self.digNum, self.digAmps, self.digTimes, self.digFrames) = digitize_shaper(...)
Digitize(self) ==
    With(self, LAMBDA obj :
    With(digitize_shaper(obj.conAmps, obj.conTimes, obj.wn, obj.zeta, obj.dt), LAMBDA d :
        IF d.raised # "none" THEN Raise(obj, d.raised)
        ELSE Return(W(obj, [digNum    |-> d.digNum,
                            digAmps   |-> d.digAmps,
                            digTimes  |-> d.digTimes,
                            digFrames |-> d.digFrames]))))

scale_for_damping(self) ==
    With(self, LAMBDA obj :
    With([k \in 1..Len(obj.conTimes) |->
             RoundDiv(obj.conTimes[k] * Unit, Sqrt(Unit - Mul(obj.zeta, obj.zeta)))], LAMBDA times :
    With([k \in 1..obj.conNum |->
             Mul(obj.conAmps[k], Exp(ExpArg(-obj.zeta, obj.wn, times[k])))], LAMBDA scaled :
    With(SumSeq(scaled), LAMBDA total :
        W(obj, [conTimes |-> times,
                conAmps  |-> [k \in 1..Len(scaled) |-> Div(scaled[k], total)]])))))

(***************************************************************************)
(* _relax_vibration.  The locals of its bisection search are the record    *)
(* frame; SearchStart is lines 305-314, SearchStep one turn of the while   *)
(* loop, SearchFinish lines 325-326.                                       *)
(***************************************************************************)
vibrationTolerance == 100

upperBoundStart == 1000

\* a bound on the model's count of the loop's turns (the program's is unbounded)
MaxIterationNum == 205

SearchStart(self, strengthFrac) ==
    With(self, LAMBDA obj :
    With(upperBoundStart * Unit, LAMBDA upperBoundAdded :
    With(((upperBoundAdded - 0) \div 2) + 0, LAMBDA midValueAdded :
        [partialFrac        |-> Unit - strengthFrac,
         iterationNum       |-> 0,
         lowerBoundAdded    |-> 0,
         upperBoundAdded    |-> upperBoundAdded,
         highValueVibration |-> residual_vibration(obj.conAmps, obj.conTimes, obj.wn, 0, upperBoundAdded),
         midValueAdded      |-> midValueAdded,
         midValueVibration  |-> residual_vibration(obj.conAmps, obj.conTimes, obj.wn, 0, midValueAdded)])))

\* the while loop's condition
SearchContinues(frame) == Abs(frame.midValueVibration - frame.partialFrac) > vibrationTolerance

SearchStep(self, frame) ==
    With(IF frame.midValueVibration > frame.partialFrac
         THEN <<frame.lowerBoundAdded, frame.midValueAdded>>
         ELSE <<frame.midValueAdded, frame.upperBoundAdded>>, LAMBDA bounds :
    With(((bounds[2] - bounds[1]) \div 2) + bounds[1], LAMBDA mid :
        [frame EXCEPT !.iterationNum      = Min(@ + 1, MaxIterationNum),
                      !.lowerBoundAdded   = bounds[1],
                      !.upperBoundAdded   = bounds[2],
                      !.midValueAdded     = mid,
                      !.midValueVibration = residual_vibration(self.conAmps, self.conTimes, self.wn, 0, mid)]))

SearchFinish(self, frame) ==
    With([self.conAmps EXCEPT ![1] = @ + frame.midValueAdded], LAMBDA added :
    With(SumSeq(added), LAMBDA total :
        W(self, [conAmps |-> [k \in 1..Len(added) |-> Div(added[k], total)]])))

\* a turn of the loop that changes none of the values the loop reads: every
\* later turn is the same, and the loop never ends
SearchStuck(self, frame) ==
    /\ SearchContinues(frame)
    /\ [SearchStep(self, frame) EXCEPT !.iterationNum = 0] = [frame EXCEPT !.iterationNum = 0]

\* _relax_vibration without its two branches for partialFrac == 0 and
\* partialFrac == 1: the search at every strengthFrac of [0, 1]
relax_vibration_searching(self, strengthFrac) ==
    With(self, LAMBDA obj :
        IF ~(strengthFrac >= 0 /\ strengthFrac <= Unit) THEN Raise(obj, "AssertionError")
        ELSE With(SearchStart(obj, strengthFrac), LAMBDA start :
                 IF ~(start.highValueVibration > strengthFrac) THEN Raise(obj, "AssertionError")
                 ELSE Search(obj, start)))

\* self._relax_vibration(strengthFrac), to its return, its exception or its
\* while loop
relax_vibration(self, strengthFrac) ==
    With(self, LAMBDA obj :
        IF ~(strengthFrac >= 0 /\ strengthFrac <= Unit) THEN Raise(obj, "AssertionError")
        ELSE IF Unit - strengthFrac = 0 THEN Return(obj)
        ELSE IF Unit - strengthFrac = Unit THEN Return(OFF(obj))
        ELSE With(SearchStart(obj, strengthFrac), LAMBDA start :
                 IF ~(start.highValueVibration > strengthFrac) THEN Raise(obj, "AssertionError")
                 ELSE Search(obj, start)))

\* the digitization without self._scale_for_damping() before it
CloseUnscaled(self) == Digitize(self)

\* self._scale_for_damping() and the digitization, the two statements that
\* close every strength-accepting method
Close(self) == Digitize(scale_for_damping(self))

\* the three statements that close every strength-accepting method, to the
\* method's end or to the while loop of _relax_vibration
Finish(self, relaxArg) ==
    With(relax_vibration(self, relaxArg), LAMBDA relaxed :
        IF relaxed.raised # "none" \/ relaxed.pc = "search" THEN relaxed
        ELSE Close(relaxed.self))

\* from the end of the while loop to the end of the method
SearchEnd(self, frame) == Close(SearchFinish(self, frame))

(***************************************************************************)
(* The shaper-family methods.                                              *)
(***************************************************************************)
CUSTOM(self, impulseSeq) ==
    LET tagged == W(self, [shaperType |-> "CUSTOM", strengthFrac |-> NaN])
        conNum == Len(impulseSeq) \div 2
    IN  IF Len(impulseSeq) % 2 # 0 THEN Raise(tagged, "AssertionError")
        ELSE Digitize(W(tagged, [conNum   |-> conNum,
                                 conAmps  |-> SubSeq(impulseSeq, 1, conNum),
                                 conTimes |-> SubSeq(impulseSeq, conNum + 1, Len(impulseSeq))]))

ZVBase(self, strengthFrac) ==
    W(self, [shaperType   |-> "ZV",
             strengthFrac |-> strengthFrac,
             conNum       |-> 2,
             conAmps      |-> <<Unit \div 2, Unit \div 2>>,
             conTimes     |-> <<0, self.Tn \div 2>>])

ZV(self, strengthFrac) == Finish(ZVBase(self, strengthFrac), strengthFrac)

ZVDBase(self, strengthFrac) ==
    W(self, [shaperType   |-> "ZVD",
             strengthFrac |-> strengthFrac,
             conNum       |-> 3,
             conAmps      |-> <<Unit \div 4, Unit \div 2, Unit \div 4>>,
             conTimes     |-> <<0, self.Tn \div 2, self.Tn>>])

ZVD(self, strengthFrac) == Finish(ZVDBase(self, strengthFrac), strengthFrac)

ZVDDBase(self, strengthFrac) ==
    W(self, [shaperType   |-> "ZVDD",
             strengthFrac |-> strengthFrac,
             conNum       |-> 4,
             conAmps      |-> <<Unit \div 8, (3 * Unit) \div 8, (3 * Unit) \div 8, Unit \div 8>>,
             conTimes     |-> <<0, self.Tn \div 2, self.Tn, (3 * self.Tn) \div 2>>])

ZVDD(self, strengthFrac) == Finish(ZVDDBase(self, strengthFrac), strengthFrac)

ZVDDDBase(self, strengthFrac) ==
    W(self, [shaperType   |-> "ZVDDD",
             strengthFrac |-> strengthFrac,
             conNum       |-> 5,
             conAmps      |-> <<Unit \div 16, Unit \div 4, (3 * Unit) \div 8, Unit \div 4, Unit \div 16>>,
             conTimes     |-> <<0, self.Tn \div 2, self.Tn, (3 * self.Tn) \div 2, 2 * self.Tn>>])

ZVDDD(self, strengthFrac) == Finish(ZVDDDBase(self, strengthFrac), strengthFrac)

SNABase(self, negativeAmp, strengthFrac) ==
    LET b == -negativeAmp
        a == (Unit - b) \div 2
    IN  W(self, [shaperType   |-> "SNA",
                 strengthFrac |-> strengthFrac,
                 conNum       |-> 3,
                 conAmps      |-> <<a, b, a>>,
                 conTimes     |-> <<0,
                                    RoundDiv(ArcCos(Div(-b, 2 * a)), self.wn),
                                    RoundDiv(ArcCos(Div(Mul(b, b), 2 * Mul(a, a)) - Unit), self.wn)>>])

SNA(self, negativeAmp, strengthFrac) ==
    IF ~(negativeAmp >= 0 /\ negativeAmp <= Unit) THEN Raise(self, "AssertionError")
    ELSE Finish(SNABase(self, negativeAmp, strengthFrac), strengthFrac)

EIBase(self, tolerableVib, strengthFrac) ==
    W(self, [shaperType   |-> "EI",
             strengthFrac |-> strengthFrac,
             conNum       |-> 3,
             conAmps      |-> <<(Unit + tolerableVib) \div 4,
                                (Unit - tolerableVib) \div 2,
                                (Unit + tolerableVib) \div 4>>,
             conTimes     |-> <<0, self.Tn \div 2, self.Tn>>])

EI(self, tolerableVib, strengthFrac) ==
    IF ~(tolerableVib >= 0 /\ tolerableVib <= Unit) THEN Raise(self, "AssertionError")
    ELSE Finish(EIBase(self, tolerableVib, strengthFrac), Max(0, strengthFrac - tolerableVib))

\* "RM%i" % impulseNum
RMTag(impulseNum) == <<"RM1", "RM2", "RM3", "RM4", "RM5", "RM6", "RM7", "RM8", "RM9">>[impulseNum]

generate_rm_impulses(self, impulseNum) ==
    LET sign(k)  == IF (k + 1) % 2 = 0 THEN 1 ELSE -1
        impAmps  == [i \in 1..impulseNum |-> sign(i - 1) * Div(Unit, (impulseNum - 1) * Unit)]
        impTimes == [i \in 1..impulseNum |-> ((i - 1) * self.Tn) \div 2]
        first    == [impAmps EXCEPT ![1] = Mul(Unit \div 2, @) + Unit]
        last     == [first EXCEPT ![impulseNum] = Mul(Unit \div 2, @)]
    IN  [impAmps |-> last, impTimes |-> impTimes]

\* the statements RM, RM3, RM4 and RM5 share, before and with the closing three
RMBase(self, shaperType, impulseNum, strengthFrac) ==
    LET rm == generate_rm_impulses(self, impulseNum)
    IN  W(self, [shaperType   |-> shaperType,
                 strengthFrac |-> strengthFrac,
                 conNum       |-> impulseNum,
                 conAmps      |-> rm.impAmps,
                 conTimes     |-> rm.impTimes])

RMOf(self, shaperType, impulseNum, strengthFrac) ==
    IF impulseNum - 1 = 0
    THEN Raise(W(self, [shaperType |-> shaperType, strengthFrac |-> strengthFrac, conNum |-> impulseNum]),
               "ZeroDivisionError")
    ELSE Finish(RMBase(self, shaperType, impulseNum, strengthFrac), strengthFrac)

RM(self, impulseNum, strengthFrac) == RMOf(self, RMTag(impulseNum), impulseNum, strengthFrac)

RM3(self, strengthFrac) == RMOf(self, "RM3", 3, strengthFrac)

RM4(self, strengthFrac) == RMOf(self, "RM4", 4, strengthFrac)

RM5(self, strengthFrac) == RMOf(self, "RM5", 5, strengthFrac)

UMZVBase(self) ==
    LET t2 == scaled_cubic(167240, 272420, 203450, 0, self.zeta, self.Tn)
        t3 == scaled_cubic(333230, 5330, 179140, 201250, self.zeta, self.Tn)
    IN  W(self, [shaperType   |-> "UMZV",
                 strengthFrac |-> Unit,
                 conNum       |-> 3,
                 conAmps      |-> <<Unit, -Unit, Unit>>,
                 conTimes     |-> <<0, t2, t3>>])

UMZV(self) == Digitize(UMZVBase(self))

UMZVDBase(self) ==
    LET t2 == scaled_cubic(89450, 284110, 230130, 164010, self.zeta, self.Tn)
        t3 == scaled_cubic(366130, -88330, 240480, 170010, self.zeta, self.Tn)
        t4 == scaled_cubic(642770, 291030, 232620, 437840, self.zeta, self.Tn)
        t5 == scaled_cubic(732280, 9920, 493850, 386330, self.zeta, self.Tn)
    IN  W(self, [shaperType   |-> "UMZVD",
                 strengthFrac |-> Unit,
                 conNum       |-> 5,
                 conAmps      |-> <<Unit, -Unit, Unit, -Unit, Unit>>,
                 conTimes     |-> <<0, t2, t3, t4, t5>>])

UMZVD(self) == Digitize(UMZVDBase(self))

\* InputShaper.__init__(wn, zeta, fps)
InputShaper(wn, zeta, fps) ==
    LET named == [wn |-> wn, zeta |-> zeta, fps |-> fps]
    IN  IF fps = 0 THEN Raise(named, "ZeroDivisionError")
        ELSE IF wn = 0 THEN Raise(W(named, [dt |-> 0, wd |-> 0]), "ZeroDivisionError")
        ELSE Return(OFF(W(named, [dt |-> FloorDiv(Second, fps),
                                  wd |-> DampedFrequency(wn, zeta),
                                  Tn |-> FloorDiv(2 * Pi, wn)])))

(***************************************************************************)
(* The state: the object (shaper); where the program is (pc: "new" before  *)
(* an object exists, "idle" between calls, "search" inside the while loop  *)
(* of _relax_vibration); the exception the last call raised; the last call *)
(* (call); and the locals of the bisection search (frame).                 *)
(***************************************************************************)
VARIABLES shaper, pc, raised, call, frame

vars == <<shaper, pc, raised, call, frame>>

\* the largest impulseNum RM is called with
MaxImpulseNum == 3

\* strengthFrac of ZV and EI: below the range, its two ends, its middle
StrengthInputs == {-(Unit \div 2), 0, Unit \div 2, Unit}

\* strengthFrac of the other generators
RangeStrengthInputs == {0, Unit \div 2, Unit}

\* (negativeAmp, strengthFrac)
SNAInputs == {<<Unit, s>> : s \in RangeStrengthInputs} \cup {<<(3 * Unit) \div 2, Unit>>}

\* (tolerableVib, strengthFrac)
EIInputs == {<<50000, s>> : s \in StrengthInputs} \cup {<<(3 * Unit) \div 2, Unit>>}

\* impulseSeq: the amplitudes, then as many times (in ticks)
CustomInputs ==
    { <<Unit, Unit, 0, 40>>,
      <<Unit \div 2, Unit \div 2, 12, 26>>,
      <<400000, 300000, 300000, 0, 3, 5>>,
      <<Unit \div 2, Unit \div 2, 0>> }

\* (wn, zeta, fps)
ConstructInputs ==
    { <<5, 600000, 15>>, <<5, 0, 6>>, <<5, 0, 5>>, <<-5, 0, 6>>, <<0, 0, 6>>, <<5, 0, 0>> }

CallOf(m, p, s, q) == [method |-> m, param |-> p, strengthFrac |-> s, impulseSeq |-> q]

NoShaper == [shaperType |-> "none"]

NoCall == CallOf("none", 0, 0, <<>>)

Init ==
    /\ shaper = NoShaper
    /\ pc = "new"
    /\ raised = "none"
    /\ call = NoCall
    /\ frame = NoFrame

Construct ==
    /\ pc = "new"
    /\ \E i \in ConstructInputs :
       \E made \in {InputShaper(i[1], i[2], i[3])} :
              /\ shaper' = IF made.raised = "none" THEN made.self ELSE NoShaper
              /\ pc' = IF made.raised = "none" THEN "idle" ELSE "new"
              /\ raised' = made.raised
              /\ call' = CallOf("InputShaper", 0, 0, <<i[1], i[2], i[3]>>)
    /\ UNCHANGED frame

\* a design call, from its first statement to its return, to its exception or
\* to the while loop of _relax_vibration
Design(c, outcome) ==
    /\ pc = "idle"
    /\ \E out \in {outcome} :
           /\ shaper' = out.self
           /\ raised' = out.raised
           /\ pc' = out.pc
           /\ frame' = out.frame
    /\ call' = c

\* one turn of the while loop of _relax_vibration
SearchIterate ==
    /\ pc = "search"
    /\ SearchContinues(frame)
    /\ frame' = SearchStep(shaper, frame)
    /\ UNCHANGED <<shaper, pc, raised, call>>

\* the while loop ends, and the method with it
SearchExit ==
    /\ pc = "search"
    /\ ~SearchContinues(frame)
    /\ \E out \in {SearchEnd(shaper, frame)} :
           /\ shaper' = out.self
           /\ raised' = out.raised
           /\ pc' = out.pc
           /\ frame' = out.frame
    /\ UNCHANGED call

DesignOFF == Design(CallOf("OFF", 0, 0, <<>>), Return(OFF(shaper)))

DesignCUSTOM == \E q \in CustomInputs : Design(CallOf("CUSTOM", 0, 0, q), CUSTOM(shaper, q))

DesignZV == \E s \in StrengthInputs : Design(CallOf("ZV", 0, s, <<>>), ZV(shaper, s))

DesignZVD == \E s \in RangeStrengthInputs : Design(CallOf("ZVD", 0, s, <<>>), ZVD(shaper, s))

DesignZVDD == \E s \in RangeStrengthInputs : Design(CallOf("ZVDD", 0, s, <<>>), ZVDD(shaper, s))

DesignZVDDD == \E s \in RangeStrengthInputs : Design(CallOf("ZVDDD", 0, s, <<>>), ZVDDD(shaper, s))

DesignSNA == \E i \in SNAInputs : Design(CallOf("SNA", i[1], i[2], <<>>), SNA(shaper, i[1], i[2]))

DesignEI == \E i \in EIInputs : Design(CallOf("EI", i[1], i[2], <<>>), EI(shaper, i[1], i[2]))

DesignRM == \E k \in 2..MaxImpulseNum, s \in RangeStrengthInputs : Design(CallOf("RM", k, s, <<>>), RM(shaper, k, s))

DesignRM3 == \E s \in RangeStrengthInputs : Design(CallOf("RM3", 0, s, <<>>), RM3(shaper, s))

DesignRM4 == \E s \in RangeStrengthInputs : Design(CallOf("RM4", 0, s, <<>>), RM4(shaper, s))

DesignRM5 == \E s \in RangeStrengthInputs : Design(CallOf("RM5", 0, s, <<>>), RM5(shaper, s))

DesignUMZV == Design(CallOf("UMZV", 0, 0, <<>>), UMZV(shaper))

DesignUMZVD == Design(CallOf("UMZVD", 0, 0, <<>>), UMZVD(shaper))

Next ==
    \/ Construct
    \/ DesignOFF
    \/ DesignCUSTOM
    \/ DesignZV
    \/ DesignZVD
    \/ DesignZVDD
    \/ DesignZVDDD
    \/ DesignSNA
    \/ DesignEI
    \/ DesignRM
    \/ DesignRM3
    \/ DesignRM4
    \/ DesignRM5
    \/ DesignUMZV
    \/ DesignUMZVD
    \/ SearchIterate
    \/ SearchExit

Spec == Init /\ [][Next]_vars

(***************************************************************************)
(* The strength relaxation on its own: freshly constructed objects and     *)
(* the calls whose bisection runs long, so that every turn of the while    *)
(* loop of _relax_vibration is a step of its own.                          *)
(***************************************************************************)
\* (wn, zeta, fps)
SearchConstructInputs == { <<5, 0, 6>>, <<5, 600000, 15>> }

\* strengthFrac of ZV: 0.0005, 0.25, 0.5, 0.9995
SearchStrengthInputs == {500, Unit \div 4, Unit \div 2, 999500}

\* (tolerableVib, strengthFrac)
SearchEIInputs == { <<50000, Unit \div 2>>, <<50000, 1020000>> }

SearchInit ==
    /\ shaper \in {InputShaper(i[1], i[2], i[3]).self : i \in SearchConstructInputs}
    /\ pc = "idle"
    /\ raised = "none"
    /\ call = NoCall
    /\ frame = NoFrame

SearchZV == \E s \in SearchStrengthInputs : Design(CallOf("ZV", 0, s, <<>>), ZV(shaper, s))

SearchEI == \E i \in SearchEIInputs : Design(CallOf("EI", i[1], i[2], <<>>), EI(shaper, i[1], i[2]))

SearchNext ==
    \/ SearchZV
    \/ SearchEI
    \/ SearchIterate
    \/ SearchExit

SearchSpec == SearchInit /\ [][SearchNext]_vars

(***************************************************************************)
(* The claims.                                                             *)
(***************************************************************************)
\* the methods that take a strengthFrac
StrengthGenerators == {"ZV", "ZVD", "ZVDD", "ZVDDD", "SNA", "EI", "RM", "RM3", "RM4", "RM5"}

\* the shaperType a method's own first statement assigns
OwnTag(c) == IF c.method = "RM" THEN RMTag(c.param) ELSE c.method

\* the last call was to a strength-accepting generator and has returned
StrengthCallReturned == pc = "idle" /\ raised = "none" /\ call.method \in StrengthGenerators

\* the object was constructed with the parameters the specification allows:
\* wn > 0, 0 <= zeta < 1, fps > 0
ValidModel ==
    /\ pc # "new"
    /\ shaper.wn > 0
    /\ shaper.zeta >= 0 /\ shaper.zeta < Unit
    /\ shaper.fps > 0

\* C1: on a validly constructed object, a design call that fails leaves every
\* stored field of the object (shaperType, strengthFrac, the continuous and
\* the digital sequence) exactly as it was before the call
C1_FailedCallChangesNothing ==
    [][(ValidModel /\ pc = "idle" /\ pc' = "idle" /\ raised' # "none") => shaper' = shaper]_vars

\* C2: on a validly constructed object, after a successful call of a strength-accepting generator with
\* strengthFrac s in [0, 1], s = 0 and s = 1 included, shaperType is the
\* generator's own tag and the stored strengthFrac is s
C2_OwnTagAndStrength ==
    (ValidModel /\ StrengthCallReturned /\ call.strengthFrac >= 0 /\ call.strengthFrac <= Unit)
        => (shaper.shaperType = OwnTag(call) /\ shaper.strengthFrac = call.strengthFrac)

\* C9: on a validly constructed object, a call of a strength-accepting
\* generator with strengthFrac outside [0, 1] fails, whatever its other
\* parameter is (for EI: whatever tolerableVib in [0, 1] is)
C9_OutOfRangeStrengthFails ==
    (/\ ValidModel
     /\ pc = "idle"
     /\ call.method \in StrengthGenerators
     /\ (call.strengthFrac < 0 \/ call.strengthFrac > Unit)
     /\ (call.method = "EI" => (call.param >= 0 /\ call.param <= Unit)))
        => raised # "none"

\* C10: construction with wn <= 0 or fps <= 0 fails and leaves no object;
\* construction succeeds only with wn > 0 and fps > 0
C10_ConstructionValidates ==
    call.method = "InputShaper"
        => /\ (raised = "none") <=> (call.impulseSeq[1] > 0 /\ call.impulseSeq[3] > 0)
           /\ raised # "none" => (pc = "new" /\ shaper = NoShaper)

\* residual_vibration of the base sequence with valueAdded on its first
\* amplitude, as the search evaluates it
SearchVibration(valueAdded) ==
    residual_vibration(shaper.conAmps, shaper.conTimes, shaper.wn, 0, valueAdded)

\* C3: for a strengthFrac strictly between 0 and 1 the bisection search ends:
\* it converges, or it stops with an error once about 200 turns are reached;
\* it is never in a turn past that ceiling, and never in a turn that changes
\* nothing
C3_SearchTerminates ==
    (ValidModel /\ pc = "search" /\ frame.partialFrac > 0 /\ frame.partialFrac < Unit)
        => (frame.iterationNum <= 200 /\ ~SearchStuck(shaper, frame))

\* C4: once the search has passed its check of the upper bound, in every
\* turn the vibration at lowerBoundAdded is at most partialFrac and the
\* vibration at upperBoundAdded is at least partialFrac
C4_BracketHoldsRoot ==
    (ValidModel /\ pc = "search")
        => /\ SearchVibration(frame.lowerBoundAdded) <= frame.partialFrac
           /\ frame.partialFrac <= SearchVibration(frame.upperBoundAdded)

\* residual_vibration of the stored continuous sequence at the object's own
\* frequency and damping
StoredVibration ==
    residual_vibration(shaper.conAmps, shaper.conTimes, shaper.wn, shaper.zeta, 0)

\* C5: on a validly constructed object, after a successful call of a
\* strength-accepting generator with strengthFrac s in [0, 1], the residual
\* vibration of the stored continuous sequence at the object's frequency and
\* damping is within 1e-4 of 1 - s.  Stated for the generators that relax by
\* s itself (EI relaxes by max(0, s - tolerableVib)), and with ten units of
\* the model's last digit allowed for its rounding.
C5_VibrationMatchesStrength ==
    (/\ ValidModel
     /\ StrengthCallReturned
     /\ call.method # "EI"
     /\ call.strengthFrac >= 0 /\ call.strengthFrac <= Unit)
        => Abs(StoredVibration - (Unit - call.strengthFrac)) <= vibrationTolerance + 10

\* the sum of a sequence of stored amplitudes is 1, up to one unit of the
\* model's last digit for each amplitude
SumsToOne(amps) == FSum(amps) # NaN /\ Abs(FSum(amps) - Unit) <= Len(amps)

\* C6 (the continuous sequence): on a validly constructed object, after a
\* successful design call of any family with any parameters the call accepts,
\* the stored continuous amplitudes sum to 1
C6_AmplitudesSumToOne ==
    (ValidModel /\ pc = "idle" /\ raised = "none") => SumsToOne(shaper.conAmps)

\* every stored digital time is a multiple of dt
DigitalTimesOnGrid == \A k \in 1..Len(shaper.digTimes) : PyMod(shaper.digTimes[k], shaper.dt) = 0

\* C7 as claimed: on an object with dt > 0, after a successful design call of
\* any family, CUSTOM included, every digital time is a multiple of dt
C7_TimesOnGrid ==
    (ValidModel /\ pc = "idle" /\ raised = "none") => DigitalTimesOnGrid

\* C7 as amended: on an object with dt > 0, after a successful design call
\* whose continuous sequence has its first time on the grid, every digital
\* time is a multiple of dt
C7_TimesOnGridAfterFirst ==
    (/\ ValidModel
     /\ pc = "idle"
     /\ raised = "none"
     /\ PyMod(shaper.conTimes[1], shaper.dt) = 0) => DigitalTimesOnGrid

\* a successful call has split an off-grid impulse that is not the first
C7_SplitHappened ==
    /\ ValidModel
    /\ pc = "idle"
    /\ raised = "none"
    /\ PyMod(shaper.conTimes[1], shaper.dt) = 0
    /\ \E k \in 2..Len(shaper.conTimes) : PyMod(shaper.conTimes[k], shaper.dt) # 0
    /\ shaper.digNum > shaper.conNum

\* n is time/dt rounded to the nearest integer, a tie to the even one
IsRounded(n, time, dt) ==
    /\ 2 * Abs(time - n * dt) <= Abs(dt)
    /\ 2 * Abs(time - n * dt) = Abs(dt) => n % 2 = 0

\* C8: in every state after construction, whatever design calls were made,
\* the stored digital frames, times and amplitudes have the same length and
\* each frame is round(time/dt) of the time at its place, for the object's dt
C8_FramesMatchTimes ==
    pc # "new"
        => /\ Len(shaper.digFrames) = Len(shaper.digTimes)
           /\ Len(shaper.digTimes) = Len(shaper.digAmps)
           /\ \A k \in 1..Len(shaper.digFrames) :
                  IsRounded(shaper.digFrames[k], shaper.digTimes[k], shaper.dt)

\* a CUSTOM call has stored a digital time off the grid, with a frame that
\* is not the time's grid point below
C8_OffGridFrameStored ==
    /\ pc = "idle"
    /\ raised = "none"
    /\ call.method = "CUSTOM"
    /\ \E k \in 1..Len(shaper.digTimes) :
           /\ PyMod(shaper.digTimes[k], shaper.dt) # 0
           /\ shaper.digFrames[k] # FloorDiv(shaper.digTimes[k], shaper.dt)

\* the denominator sin(phikNext)*cos(phik) + sin(phik)*cos(phikNext) of the
\* split of an impulse at time, for the grid dt and the damped frequency wd
SplitDenominator(time, wd, dt) ==
    With(<<Abs(FloorDiv(time, dt) * dt - time) * wd, Abs(CeilDiv(time, dt) * dt - time) * wd>>, LAMBDA phik :
        Mul(Sin(phik[2]), Cos(phik[1])) + Mul(Sin(phik[1]), Cos(phik[2])))

\* the digitization of the stored continuous sequence splits an off-grid
\* impulse whose denominator is zero
ZeroDenominatorSplit ==
    \E k \in 2..Len(shaper.conTimes) :
        /\ PyMod(shaper.conTimes[k], shaper.dt) # 0
        /\ SplitDenominator(shaper.conTimes[k], DampedFrequency(shaper.wn, shaper.zeta), shaper.dt) = 0

\* C11: on a validly constructed object, a design call whose digitization
\* splits an off-grid impulse with a zero denominator ends in an error: it
\* never returns with a digital sequence stored
C11_ZeroDenominatorIsFatal ==
    (ValidModel /\ pc = "idle" /\ call.method # "InputShaper" /\ ZeroDenominatorSplit)
        => raised # "none"

\* the continuous sequence a method has assigned when it reaches
\* _relax_vibration (the strength-accepting methods) or digitize_shaper
\* (UMZV, UMZVD, CUSTOM): the object with the pattern of call c
BasePattern(self, c) ==
    IF c.method = "ZV" THEN ZVBase(self, c.strengthFrac)
    ELSE IF c.method = "ZVD" THEN ZVDBase(self, c.strengthFrac)
    ELSE IF c.method = "ZVDD" THEN ZVDDBase(self, c.strengthFrac)
    ELSE IF c.method = "ZVDDD" THEN ZVDDDBase(self, c.strengthFrac)
    ELSE IF c.method = "SNA" THEN SNABase(self, c.param, c.strengthFrac)
    ELSE IF c.method = "EI" THEN EIBase(self, c.param, c.strengthFrac)
    ELSE IF c.method = "RM" THEN RMBase(self, RMTag(c.param), c.param, c.strengthFrac)
    ELSE IF c.method = "RM3" THEN RMBase(self, "RM3", 3, c.strengthFrac)
    ELSE IF c.method = "RM4" THEN RMBase(self, "RM4", 4, c.strengthFrac)
    ELSE IF c.method = "RM5" THEN RMBase(self, "RM5", 5, c.strengthFrac)
    ELSE IF c.method = "UMZV" THEN UMZVBase(self)
    ELSE IF c.method = "UMZVD" THEN UMZVDBase(self)
    ELSE W(self, [conNum   |-> Len(c.impulseSeq) \div 2,
                  conAmps  |-> SubSeq(c.impulseSeq, 1, Len(c.impulseSeq) \div 2),
                  conTimes |-> SubSeq(c.impulseSeq, (Len(c.impulseSeq) \div 2) + 1, Len(c.impulseSeq))])

\* the argument call c gives to _relax_vibration
RelaxArg(c) == IF c.method = "EI" THEN Max(0, c.strengthFrac - c.param) ELSE c.strengthFrac

\* the pattern of call c as _relax_vibration leaves it when it returns
\* without a search (strengthFrac 1 or 0); the pattern itself for the methods
\* that do not call _relax_vibration
RelaxedPattern(self, c) ==
    IF c.method \in StrengthGenerators
    THEN relax_vibration(BasePattern(self, c), RelaxArg(c)).self
    ELSE BasePattern(self, c)

SameContinuous(a, b) == a.conNum = b.conNum /\ a.conAmps = b.conAmps /\ a.conTimes = b.conTimes

\* the stored digital sequence is the digitization of the stored continuous one
DigitizedFromStored(self) == Digitize(self) = Return(self)

\* the step ends a design call successfully with, stored, the sequence
\* _scale_for_damping makes of pattern, and its digitization: the scaling was
\* applied to pattern, once, and before digitize_shaper
ScaledOnce(pattern) ==
    SameContinuous(shaper', scale_for_damping(pattern)) /\ DigitizedFromStored(shaper')

\* the step ends a design call successfully with, stored, pattern itself and
\* its digitization: no scaling was applied
NeverScaled(pattern) == SameContinuous(shaper', pattern) /\ DigitizedFromStored(shaper')

\* a design call returns successfully without a search
ReturnsDirectly == pc = "idle" /\ pc' = "idle" /\ raised' = "none" /\ call'.method # "OFF"

\* a design call returns successfully from its search
ReturnsFromSearch == pc = "search" /\ pc' = "idle" /\ raised' = "none"

\* while the search of _relax_vibration runs, the stored continuous sequence
\* is the base pattern, not yet scaled
UnscaledInSearch ==
    pc' = "search" =>
        IF pc = "idle" THEN SameContinuous(shaper', BasePattern(shaper, call')) ELSE shaper' = shaper

\* the strength-accepting families: the scaling once, after the relaxation
StrengthFamiliesScaledOnce ==
    /\ (ReturnsDirectly /\ call'.method \in StrengthGenerators) => ScaledOnce(RelaxedPattern(shaper, call'))
    /\ ReturnsFromSearch => ScaledOnce(SearchFinish(shaper, frame))
    /\ UnscaledInSearch

\* C12 as claimed: on a validly constructed object, every successful design
\* call of ZV, ZVD, ZVDD, ZVDDD, SNA, EI, RM-k, UMZV and UMZVD applies
\* _scale_for_damping exactly once, after the base pattern and the relaxation
\* and before the digitization; CUSTOM applies neither and digitizes its
\* input as given
C12_ScaledOnceAllFamilies ==
    [][ValidModel =>
          /\ StrengthFamiliesScaledOnce
          /\ (ReturnsDirectly /\ call'.method \in {"UMZV", "UMZVD"}) => ScaledOnce(RelaxedPattern(shaper, call'))
          /\ (ReturnsDirectly /\ call'.method = "CUSTOM") => NeverScaled(RelaxedPattern(shaper, call'))]_vars

\* C12 as amended: on a validly constructed object, every successful design
\* call of ZV, ZVD, ZVDD, ZVDDD, SNA, EI and RM-k applies _scale_for_damping
\* exactly once, after the base pattern and the relaxation and before the
\* digitization; UMZV, UMZVD and CUSTOM apply neither the relaxation nor the
\* scaling and digitize their pattern as it is
C12_ScaledOnceStrengthFamilies ==
    [][ValidModel =>
          /\ StrengthFamiliesScaledOnce
          /\ (ReturnsDirectly /\ call'.method \in {"UMZV", "UMZVD", "CUSTOM"})
                 => NeverScaled(RelaxedPattern(shaper, call'))]_vars

\* a damped object holds the result of a ZVD call that ran the search: its
\* times are the base times 0, Tn/2, Tn stretched
C12_ScaledAfterSearch ==
    /\ ValidModel
    /\ shaper.zeta > 0
    /\ StrengthCallReturned
    /\ call.method = "ZVD"
    /\ call.strengthFrac > 0 /\ call.strengthFrac < Unit
    /\ shaper.conTimes[2] > shaper.Tn \div 2
    /\ shaper.conTimes[3] > shaper.Tn

\* the calls after which the specification has no strengthFraction: the
\* construction and the families without a strength
StrengthlessCalls == {"InputShaper", "OFF", "CUSTOM", "UMZV", "UMZVD"}

\* C13: on a validly constructed object, after construction and after a
\* successful OFF, CUSTOM, UMZV or UMZVD call the stored strengthFrac is
\* undefined (nan); after a successful call of any other family it is a
\* number in [0, 1]
C13_StrengthDefinedByFamily ==
    (ValidModel /\ pc = "idle" /\ raised = "none")
        => IF call.method \in StrengthlessCalls
           THEN shaper.strengthFrac = NaN
           ELSE shaper.strengthFrac # NaN /\ shaper.strengthFrac >= 0 /\ shaper.strengthFrac <= Unit

\* call c reaches self._relax_vibration(...): it is a call of a
\* strength-accepting method that passes the method's own assertion
ReachesRelaxer(c) ==
    /\ c.method \in StrengthGenerators
    /\ c.method \in {"SNA", "EI"} => (c.param >= 0 /\ c.param <= Unit)

\* the continuous sequence of the object is the OFF sequence
IsOffSequence(self) == self.conNum = 1 /\ self.conAmps = <<Unit>> /\ self.conTimes = <<0>>

\* _relax_vibration(1) on pattern returns at once with the continuous
\* sequence as it was, and the call stores its scaling
RelaxerIdentityAtOne(pattern) ==
    /\ relax_vibration(pattern, Unit) = Return(pattern)
    /\ pc' = "idle"
    /\ SameContinuous(shaper', scale_for_damping(pattern))

\* _relax_vibration(0) on pattern returns at once with the OFF sequence as
\* the continuous sequence, and the call stores it
RelaxerOffAtZero(pattern) ==
    /\ relax_vibration(pattern, 0).pc = "idle"
    /\ relax_vibration(pattern, 0).raised = "none"
    /\ IsOffSequence(relax_vibration(pattern, 0).self)
    /\ pc' = "idle"
    /\ IsOffSequence(shaper')

\* C14: on a validly constructed object, in a design call that gives
\* _relax_vibration the strength 1 the continuous amplitudes and times are
\* left exactly as the method set them, and in one that gives it the
\* strength 0 the continuous sequence becomes one impulse of amplitude 1 at
\* time 0; in neither call does the bisection search run
C14_RelaxerEndpoints ==
    [][(ValidModel /\ pc = "idle" /\ ReachesRelaxer(call'))
          => /\ RelaxArg(call') = Unit => RelaxerIdentityAtOne(BasePattern(shaper, call'))
             /\ RelaxArg(call') = 0 => RelaxerOffAtZero(BasePattern(shaper, call'))]_vars

\* a ZVDDD call with strengthFrac 0 on an object that held another sequence
\* has returned, with the OFF sequence stored
C14_RelaxedToOff ==
    /\ ValidModel
    /\ StrengthCallReturned
    /\ call.method = "ZVDDD"
    /\ call.strengthFrac = 0
    /\ IsOffSequence(shaper)

\* every stored continuous time is a multiple of dt
ContinuousTimesOnGrid == \A k \in 1..Len(shaper.conTimes) : PyMod(shaper.conTimes[k], shaper.dt) = 0

\* C15: on a validly constructed object, after a successful design call
\* whose continuous times are all multiples of dt, the digital sequence has
\* as many impulses as the continuous one, the same times in the same order,
\* each amplitude the continuous amplitude divided by the sum of the
\* continuous amplitudes, and each frame time/dt: no impulse was split
C15_OnGridDigitizedUnchanged ==
    (ValidModel /\ pc = "idle" /\ raised = "none" /\ ContinuousTimesOnGrid)
        => /\ shaper.digNum = Len(shaper.conAmps)
           /\ shaper.digTimes = shaper.conTimes
           /\ shaper.digAmps = [k \in 1..Len(shaper.conAmps) |-> Div(shaper.conAmps[k], SumSeq(shaper.conAmps))]
           /\ Len(shaper.digFrames) = Len(shaper.conTimes)
           /\ \A k \in 1..Len(shaper.conTimes) : shaper.digFrames[k] * shaper.dt = shaper.conTimes[k]

\* a CUSTOM call has digitized two impulses on the grid, the second after
\* time 0, whose amplitudes do not sum to 1
C15_OnGridRenormalized ==
    /\ ValidModel
    /\ pc = "idle"
    /\ raised = "none"
    /\ call.method = "CUSTOM"
    /\ ContinuousTimesOnGrid
    /\ Len(shaper.conTimes) = 2
    /\ shaper.conTimes[2] > 0
    /\ SumSeq(shaper.conAmps) # Unit

NonDecreasing(seq) == \A k \in 1..(Len(seq) - 1) : seq[k] <= seq[k + 1]

\* C16: on a validly constructed object, after a successful design call
\* whose continuous times start at 0 and never decrease, the digital times
\* never decrease and the digital frames never decrease, whether or not two
\* off-grid impulses lie between the same two grid points
C16_DigitalTimesMonotone ==
    (/\ ValidModel
     /\ pc = "idle"
     /\ raised = "none"
     /\ shaper.conTimes[1] = 0
     /\ NonDecreasing(shaper.conTimes))
        => NonDecreasing(shaper.digTimes) /\ NonDecreasing(shaper.digFrames)

\* the outcome of the design call c on the object self
Invoke(self, c) ==
    IF c.method = "OFF" THEN Return(OFF(self))
    ELSE IF c.method = "CUSTOM" THEN CUSTOM(self, c.impulseSeq)
    ELSE IF c.method = "ZV" THEN ZV(self, c.strengthFrac)
    ELSE IF c.method = "ZVD" THEN ZVD(self, c.strengthFrac)
    ELSE IF c.method = "ZVDD" THEN ZVDD(self, c.strengthFrac)
    ELSE IF c.method = "ZVDDD" THEN ZVDDD(self, c.strengthFrac)
    ELSE IF c.method = "SNA" THEN SNA(self, c.param, c.strengthFrac)
    ELSE IF c.method = "EI" THEN EI(self, c.param, c.strengthFrac)
    ELSE IF c.method = "RM" THEN RM(self, c.param, c.strengthFrac)
    ELSE IF c.method = "RM3" THEN RM3(self, c.strengthFrac)
    ELSE IF c.method = "RM4" THEN RM4(self, c.strengthFrac)
    ELSE IF c.method = "RM5" THEN RM5(self, c.strengthFrac)
    ELSE IF c.method = "UMZV" THEN UMZV(self)
    ELSE UMZVD(self)

\* the object as InputShaper(wn, zeta, fps) makes it from the construction
\* parameters of self: no design call was made on it
Fresh(self) == InputShaper(self.wn, self.zeta, self.fps).self

\* the step is a design call that returns successfully without a search:
\* it leaves the object the same call leaves of a fresh one
DirectCallHistoryFree ==
    (pc = "idle" /\ pc' = "idle" /\ raised' = "none") => shaper' = Invoke(Fresh(shaper), call').self

\* the step is a design call that enters the search: the locals of the
\* search, and all the search reads of the object, are those of the same call
\* on a fresh object, which is in its search with the call's pattern stored
SearchEntryHistoryFree ==
    (pc = "idle" /\ pc' = "search")
        => With(Invoke(Fresh(shaper), call'), LAMBDA out :
               /\ out.pc = "search"
               /\ out.self = BasePattern(Fresh(shaper), call')
               /\ frame' = out.frame
               /\ SameContinuous(shaper', out.self)
               /\ shaper'.shaperType = out.self.shaperType
               /\ shaper'.strengthFrac = out.self.strengthFrac)

\* the step is a turn or the end of the search: it goes as it goes on a
\* fresh object, which is left as this one
SearchHistoryFree ==
    pc = "search"
        => IF pc' = "search"
           THEN frame' = SearchStep(BasePattern(Fresh(shaper), call), frame) /\ shaper' = shaper
           ELSE raised' = "none" => shaper' = SearchEnd(BasePattern(Fresh(shaper), call), frame).self

\* the step repeats the last call, which had succeeded, and succeeds
RepeatsCall == pc = "idle" /\ raised = "none" /\ call' = call /\ pc' = "idle" /\ raised' = "none"

\* C17: on a validly constructed object, the object a successful design call
\* leaves is the object the same call leaves of a freshly constructed object
\* with the same wn, zeta and fps, whatever calls, successful or failed, were
\* made before; and a successful call made again leaves the object as it is
C17_HistoryFree ==
    [][ValidModel =>
          /\ DirectCallHistoryFree
          /\ SearchEntryHistoryFree
          /\ SearchHistoryFree
          /\ RepeatsCall => shaper' = shaper]_vars

\* a ZVD call is in its search on an object that still holds the digital
\* sequence an earlier successful UMZVD call stored
C17_SearchOnUsedObject ==
    /\ ValidModel
    /\ pc = "search"
    /\ call.method = "ZVD"
    /\ shaper.shaperType = "ZVD"
    /\ shaper.digNum > 5
    /\ shaper.digAmps # Fresh(shaper).digAmps

====
